---- MODULE Spec2Model ----
(***************************************************************************)
(* Table mappings of the driver's mapper (lib/mapping/table-mappings.js):  *)
(* the three TableMappings strategies, their identifier conversions        *)
(* (getColumnName, getPropertyName) and their document conversions         *)
(* (objectToArray, objectToFixedCasing, objectToTableCasing).              *)
(*                                                                         *)
(* Strings are sequences of one-character strings.  A JavaScript value is  *)
(* a record [t, v]: t is the kind of value and v its payload.  An object   *)
(* is written inline (a value nobody else refers to) or as a reference     *)
(* into Heap, the objects the caller holds that refer to each other.       *)
(***************************************************************************)
EXTENDS Integers, Sequences, FiniteSets, TLC

\* ------------------------------------------------------------------ bounds
\* Longest property or column name drawn over Alphabet.
MaxNameLen == 3
\* Deepest nesting of the documents drawn as inputs.
MaxDepth == 2
\* Frames the engine's call stack holds before it throws RangeError.
StackLimit == 7

\* ------------------------------------------------------------ characters
\* index.d.ts lowerCaseLetters and UpperCaseLetters: the ASCII letters.
lowerCaseLetters ==
  <<"a","b","c","d","e","f","g","h","i","j","k","l","m",
    "n","o","p","q","r","s","t","u","v","w","x","y","z">>

UpperCaseLetters ==
  <<"A","B","C","D","E","F","G","H","I","J","K","L","M",
    "N","O","P","Q","R","S","T","U","V","W","X","Y","Z">>

\* /[A-Z]/ and /[a-z]/ on one character.
IsUpper(c) == \E i \in 1..26 : UpperCaseLetters[i] = c
IsLower(c) == \E i \in 1..26 : lowerCaseLetters[i] = c

\* String.prototype.toLowerCase / toUpperCase on one ASCII character.
CharToLowerCase(c) ==
  IF IsUpper(c)
    THEN lowerCaseLetters[CHOOSE i \in 1..26 : UpperCaseLetters[i] = c]
    ELSE c

CharToUpperCase(c) ==
  IF IsLower(c)
    THEN UpperCaseLetters[CHOOSE i \in 1..26 : lowerCaseLetters[i] = c]
    ELSE c

toLowerCase(s) == [i \in 1..Len(s) |-> CharToLowerCase(s[i])]
toUpperCase(s) == [i \in 1..Len(s) |-> CharToUpperCase(s[i])]

\* s.charAt(0) and s.slice(1)
charAt0(s) == IF Len(s) = 0 THEN <<>> ELSE <<s[1]>>
slice1(s) == IF Len(s) = 0 THEN <<>> ELSE SubSeq(s, 2, Len(s))

\* s.split(/(?=[A-Z])/): cut before every upper-case letter but the first
\* character; the empty string gives one empty segment.
SplitBeforeUpper(s) ==
  LET F[i \in 0..Len(s)] ==
        IF i = 0 THEN << <<>> >>
        ELSE LET prev == F[i - 1]
             IN  IF i > 1 /\ IsUpper(s[i])
                   THEN Append(prev, <<s[i]>>)
                   ELSE [prev EXCEPT ![Len(prev)] = Append(@, s[i])]
  IN  F[Len(s)]

\* s.split('_'): the segments between underscores, empty ones included.
SplitUnderscore(s) ==
  LET F[i \in 0..Len(s)] ==
        IF i = 0 THEN << <<>> >>
        ELSE LET prev == F[i - 1]
             IN  IF s[i] = "_"
                   THEN Append(prev, <<>>)
                   ELSE [prev EXCEPT ![Len(prev)] = Append(@, s[i])]
  IN  F[Len(s)]

\* segs.join(sep)
Join(segs, sep) ==
  LET F[i \in 0..Len(segs)] ==
        IF i = 0 THEN <<>>
        ELSE IF i = 1 THEN segs[1]
        ELSE F[i - 1] \o sep \o segs[i]
  IN  F[Len(segs)]

\* ------------------------------------------------------- TableMappings
\* The list the constructor writes, before .map(toLowerCase).
ReservedWordsUpper ==
  <<
     <<"A","D","D">>, <<"A","L","L","O","W">>, <<"A","L","T","E","R">>,
     <<"A","N","D">>, <<"A","P","P","L","Y">>, <<"A","S","C">>,
     <<"A","U","T","H","O","R","I","Z","E">>, <<"B","A","T","C","H">>, <<"B","E","G","I","N">>,
     <<"B","Y">>, <<"C","O","L","U","M","N","F","A","M","I","L","Y">>, <<"C","R","E","A","T","E">>,
     <<"D","E","L","E","T","E">>, <<"D","E","S","C">>, <<"D","E","S","C","R","I","B","E">>,
     <<"D","R","O","P">>, <<"E","N","T","R","I","E","S">>, <<"E","X","E","C","U","T","E">>,
     <<"F","R","O","M">>, <<"F","U","L","L">>, <<"G","R","A","N","T">>,
     <<"I","F">>, <<"I","N">>, <<"I","N","D","E","X">>,
     <<"I","N","F","I","N","I","T","Y">>, <<"I","N","S","E","R","T">>, <<"I","N","T","O">>,
     <<"K","E","Y","S","P","A","C","E">>, <<"L","I","M","I","T">>, <<"M","O","D","I","F","Y">>,
     <<"N","A","N">>, <<"N","O","R","E","C","U","R","S","I","V","E">>, <<"N","O","T">>,
     <<"N","U","L","L">>, <<"O","F">>, <<"O","N">>,
     <<"O","R">>, <<"O","R","D","E","R">>, <<"P","R","I","M","A","R","Y">>,
     <<"R","E","N","A","M","E">>, <<"R","E","P","L","A","C","E">>, <<"R","E","V","O","K","E">>,
     <<"S","C","H","E","M","A">>, <<"S","E","L","E","C","T">>, <<"S","E","T">>,
     <<"T","A","B","L","E">>, <<"T","O">>, <<"T","O","K","E","N">>,
     <<"T","R","U","N","C","A","T","E">>, <<"U","N","L","O","G","G","E","D">>, <<"U","P","D","A","T","E">>,
     <<"U","S","E">>, <<"U","S","I","N","G">>, <<"V","I","E","W">>,
     <<"W","H","E","R","E">>, <<"W","I","T","H">>
  >>

\* TableMappings.constructor: this.ReservedWords
ReservedWords == [i \in 1..Len(ReservedWordsUpper) |-> toLowerCase(ReservedWordsUpper[i])]

\* The instance a constructor builds.  DefaultTableMappings takes no flag and
\* never reads one.
NewInstance(class, convertLongToString) ==
  [class |-> class,
   convertLongToString |-> convertLongToString,
   ReservedWords |-> ReservedWords]

\* Array.prototype.includes on a list of strings.
includes(list, s) == \E i \in 1..Len(list) : list[i] = s

\* TableMappings.getColumnName / getPropertyName: the base class returns
\* its argument.
TableMappings_getColumnName(self, propName) == propName
TableMappings_getPropertyName(self, columnName) == columnName

\* DefaultTableMappings: super.getColumnName / super.getPropertyName
Default_getColumnName(self, propName) == TableMappings_getColumnName(self, propName)
Default_getPropertyName(self, columnName) == TableMappings_getPropertyName(self, columnName)

\* UnderscoreCqlToCamelCaseMappings.getColumnName without the check against
\* ReservedWords.
Camel_getColumnName_NeverEscapes(self, PropName) ==
  toLowerCase(Join(SplitBeforeUpper(PropName), <<"_">>))

\* UnderscoreCqlToCamelCaseMappings.getColumnName
Camel_getColumnName(self, PropName) ==
  LET Propertyname == toLowerCase(Join(SplitBeforeUpper(PropName), <<"_">>))
  IN  IF includes(self.ReservedWords, Propertyname)
        THEN Propertyname \o <<"_">>
        ELSE Propertyname

\* UnderscoreCqlToCamelCaseMappings.getPropertyName that upper-cases the
\* first segment too, as the Pascal strategy does.
Camel_getPropertyName_FirstWordToo(self, columnName) ==
  LET words == SplitUnderscore(columnName)
      mapped == [index \in 1..Len(words) |->
                   toUpperCase(charAt0(words[index])) \o slice1(words[index])]
  IN  Join(mapped, <<>>)

\* UnderscoreCqlToCamelCaseMappings.getPropertyName
Camel_getPropertyName(self, columnName) ==
  LET words == SplitUnderscore(columnName)
      mapped == [index \in 1..Len(words) |->
                   IF index = 1 THEN words[index]
                   ELSE toUpperCase(charAt0(words[index])) \o slice1(words[index])]
  IN  Join(mapped, <<>>)

\* UnderscoreCqlToPascalCaseMappings.getColumnName without .toLowerCase():
\* the words are joined in the case they were given in.
Pascal_getColumnName_KeepsCase(self, PropName) ==
  LET Propertyname == Join(SplitBeforeUpper(PropName), <<"_">>)
  IN  IF includes(self.ReservedWords, Propertyname)
        THEN Propertyname \o <<"_">>
        ELSE Propertyname

\* UnderscoreCqlToPascalCaseMappings.getColumnName
Pascal_getColumnName(self, PropName) ==
  LET Propertyname == toLowerCase(Join(SplitBeforeUpper(PropName), <<"_">>))
  IN  IF includes(self.ReservedWords, Propertyname)
        THEN Propertyname \o <<"_">>
        ELSE Propertyname

\* UnderscoreCqlToPascalCaseMappings.getPropertyName
Pascal_getPropertyName(self, ColumnName) ==
  LET words == SplitUnderscore(ColumnName)
      mapped == [index \in 1..Len(words) |->
                   toUpperCase(charAt0(words[index])) \o slice1(words[index])]
  IN  Join(mapped, <<>>)

\* this.getColumnName / this.getPropertyName: the method of the instance's class.
getColumnName(self, propName) ==
  CASE self.class = "Camel"   -> Camel_getColumnName(self, propName)
    [] self.class = "Pascal"  -> Pascal_getColumnName(self, propName)
    [] self.class = "Default" -> Default_getColumnName(self, propName)

getPropertyName(self, columnName) ==
  CASE self.class = "Camel"   -> Camel_getPropertyName(self, columnName)
    [] self.class = "Pascal"  -> Pascal_getPropertyName(self, columnName)
    [] self.class = "Default" -> Default_getPropertyName(self, columnName)

\* index.d.ts snakeCaseConditions<P, S1, S2>: P is the previous character
\* ("" at the start), S1 the current one, S2 the next one.
snakeCaseConditions(P, S1, S2) ==
  IF IsUpper(S1)
    THEN IF P = "" THEN FALSE
         ELSE IF IsLower(P) THEN TRUE
         ELSE IF IsLower(S2) THEN TRUE
         ELSE FALSE
    ELSE FALSE

\* index.d.ts snakeCase<S, P>: `${infer S1}${infer S2}${infer S3}` matches a
\* string of two characters or more (S3 may be empty); a shorter string
\* takes the last branch, Lowercase<S>.
RECURSIVE snakeCase(_, _)
snakeCase(S, P) ==
  IF Len(S) >= 2
    THEN LET S1 == S[1]
             S2 == S[2]
             rest == SubSeq(S, 2, Len(S))
         IN  IF snakeCaseConditions(P, S1, S2)
               THEN <<"_", CharToLowerCase(S1)>> \o snakeCase(rest, S1)
               ELSE <<CharToLowerCase(S1)>> \o snakeCase(rest, S1)
    ELSE toLowerCase(S)

\* ---------------------------------------------------------------- values
Num(n) == [t |-> "number", v |-> n]
Str(s) == [t |-> "string", v |-> s]
Bool(b) == [t |-> "boolean", v |-> b]
Null == [t |-> "null", v |-> 0]
Undefined == [t |-> "undefined", v |-> 0]
\* a Date, by its time value
DateOf(time) == [t |-> "Date", v |-> time]
\* a Long, by the integer it holds
LongOf(n) == [t |-> "Long", v |-> n]
\* an array, by its elements
Arr(elems) == [t |-> "Array", v |-> elems]
\* a plain object, by its own enumerable properties <<key, value>> in
\* insertion order
Obj(entries) == [t |-> "Object", v |-> entries]
\* a reference to the object Heap[a]
Ref(a) == [t |-> "ref", v |-> a]
\* the outcome of a call that throws
Thrown(name) == [t |-> "throw", v |-> name]
IsThrown(x) == x.t = "throw"

\* Objects of the caller that are held by reference: 1 is a mapping that
\* holds itself; 2 is a mapping whose array, 3, holds 2 again; 4 is a
\* mapping shared by reference without any cycle.
Heap ==
  <<Obj(<< <<<<"s","e","l","f">>, Ref(1)>> >>),
    Obj(<< <<<<"i","d">>, Num(1)>>, <<<<"k","i","d","s">>, Ref(3)>> >>),
    Arr(<<Ref(2)>>),
    Obj(<< <<<<"z","i","p","C","o","d","e">>, Str(<<"X">>)>> >>)>>

\* The object a value denotes.
Target(x) == IF x.t = "ref" THEN Heap[x.v] ELSE x

\* typeof x
TypeOf(x) ==
  IF x.t \in {"number", "string", "boolean", "undefined"} THEN x.t ELSE "object"

IsNull(x) == x.t = "null"
\* Array.isArray(x), x instanceof Date, x instanceof Long
IsArray(x) == Target(x).t = "Array"
InstanceOfDate(x) == Target(x).t = "Date"
InstanceOfLong(x) == Target(x).t = "Long"

\* The own enumerable properties of a Long (low, high, unsigned), for the
\* values drawn here: |n| < 2^31.
LongEntries(n) ==
  << <<<<"l","o","w">>, Num(n)>>,
     <<<<"h","i","g","h">>, Num(IF n < 0 THEN -1 ELSE 0)>>,
     <<<<"u","n","s","i","g","n","e","d">>, Bool(FALSE)>> >>

\* The decimal digits of a natural number.
RECURSIVE Digits(_)
Digits(n) ==
  LET d == <<"0","1","2","3","4","5","6","7","8","9">>[(n % 10) + 1]
  IN  IF n < 10 THEN <<d>> ELSE Digits(n \div 10) \o <<d>>

\* Long.prototype.toString(): the decimal string.
LongToString(x) ==
  LET n == Target(x).v
  IN  Str(IF n < 0 THEN <<"-">> \o Digits(-n) ELSE Digits(n))

\* The decimal string of an array index.
IndexKey(i) == Digits(i)

\* Object.entries(obj) of a non-null object: a plain object's properties; the
\* indexed elements of an array; nothing for a Date; the fields of a Long.
ObjectEntries(obj) ==
  LET o == Target(obj)
  IN  CASE o.t = "Object" -> o.v
        [] o.t = "Array"  -> [i \in 1..Len(o.v) |-> <<IndexKey(i - 1), o.v[i]>>]
        [] o.t = "Date"   -> <<>>
        [] o.t = "Long"   -> LongEntries(o.v)

\* newObject[key] = value on a plain object: an existing key keeps its place
\* and takes the new value, a new key goes last.
SetProperty(newObject, key, value) ==
  LET e == newObject.v
  IN  IF \E i \in 1..Len(e) : e[i][1] = key
        THEN Obj([i \in 1..Len(e) |-> IF e[i][1] = key THEN <<key, value>> ELSE e[i]])
        ELSE Obj(Append(e, <<key, value>>))

\* The engine throws RangeError when a call would exceed its stack.
RangeError == Thrown("RangeError")

\* ------------------------------------------------- document conversions
\* Every conversion takes the depth of its frame on the call stack; the
\* call the mapper makes is at depth 1.


\* UnderscoreCqlToCamelCaseMappings.objectToTableCasing that builds the
\* converted sequence back to front.
RECURSIVE Camel_objectToTableCasing_Reversed(_, _, _)
Camel_objectToTableCasing_Reversed(self, obj, depth) ==
  IF depth > StackLimit THEN RangeError
  ELSE IF TypeOf(obj) # "object" \/ IsNull(obj) THEN obj
  ELSE IF ~IsArray(obj) THEN
    LET entries == ObjectEntries(obj)
        newObject[i \in 0..Len(entries)] ==
          IF i = 0 THEN Obj(<<>>)
          ELSE LET key == entries[i][1]
                   value == entries[i][2]
                   prev == newObject[i - 1]
               IN  IF IsThrown(prev) THEN prev
                   ELSE IF InstanceOfDate(value) \/ IsNull(value) \/ InstanceOfLong(value)
                     THEN SetProperty(prev, getColumnName(self, key),
                                      IF InstanceOfLong(value) /\ self.convertLongToString
                                        THEN LongToString(value) ELSE value)
                   ELSE IF TypeOf(value) = "object"
                     THEN LET r == Camel_objectToTableCasing_Reversed(self, value, depth + 1)
                          IN  IF IsThrown(r) THEN r
                              ELSE SetProperty(prev, getColumnName(self, key), r)
                   ELSE SetProperty(prev, getColumnName(self, key), value)
    IN  newObject[Len(entries)]
  ELSE
    LET elems == Target(obj).v
        mapped[i \in 0..Len(elems)] ==
          IF i = 0 THEN Arr(<<>>)
          ELSE LET prev == mapped[i - 1]
               IN  IF IsThrown(prev) THEN prev
                   ELSE LET r == Camel_objectToTableCasing_Reversed(self, elems[i], depth + 1)
                        IN  IF IsThrown(r) THEN r ELSE Arr(<<r>> \o prev.v)
    IN  mapped[Len(elems)]


\* UnderscoreCqlToCamelCaseMappings.objectToTableCasing
RECURSIVE Camel_objectToTableCasing(_, _, _)
Camel_objectToTableCasing(self, obj, depth) ==
  IF depth > StackLimit THEN RangeError
  ELSE IF TypeOf(obj) # "object" \/ IsNull(obj) THEN obj
  ELSE IF ~IsArray(obj) THEN
    LET entries == ObjectEntries(obj)
        newObject[i \in 0..Len(entries)] ==
          IF i = 0 THEN Obj(<<>>)
          ELSE LET key == entries[i][1]
                   value == entries[i][2]
                   prev == newObject[i - 1]
               IN  IF IsThrown(prev) THEN prev
                   ELSE IF InstanceOfDate(value) \/ IsNull(value) \/ InstanceOfLong(value)
                     THEN SetProperty(prev, getColumnName(self, key),
                                      IF InstanceOfLong(value) /\ self.convertLongToString
                                        THEN LongToString(value) ELSE value)
                   ELSE IF TypeOf(value) = "object"
                     THEN LET r == Camel_objectToTableCasing(self, value, depth + 1)
                          IN  IF IsThrown(r) THEN r
                              ELSE SetProperty(prev, getColumnName(self, key), r)
                   ELSE SetProperty(prev, getColumnName(self, key), value)
    IN  newObject[Len(entries)]
  ELSE
    LET elems == Target(obj).v
        mapped[i \in 0..Len(elems)] ==
          IF i = 0 THEN Arr(<<>>)
          ELSE LET prev == mapped[i - 1]
               IN  IF IsThrown(prev) THEN prev
                   ELSE LET r == Camel_objectToTableCasing(self, elems[i], depth + 1)
                        IN  IF IsThrown(r) THEN r ELSE Arr(Append(prev.v, r))
    IN  mapped[Len(elems)]


\* UnderscoreCqlToCamelCaseMappings.objectToFixedCasing that copies a nested
\* object under its new name without converting it.
RECURSIVE Camel_objectToFixedCasing_Shallow(_, _, _)
Camel_objectToFixedCasing_Shallow(self, obj, depth) ==
  IF depth > StackLimit THEN RangeError
  ELSE IF TypeOf(obj) # "object" \/ IsNull(obj) THEN obj
  ELSE IF ~IsArray(obj) THEN
    LET entries == ObjectEntries(obj)
        newObject[i \in 0..Len(entries)] ==
          IF i = 0 THEN Obj(<<>>)
          ELSE LET key == entries[i][1]
                   value == entries[i][2]
                   prev == newObject[i - 1]
               IN  IF IsThrown(prev) THEN prev
                   ELSE IF InstanceOfDate(value) \/ IsNull(value) \/ InstanceOfLong(value)
                     THEN SetProperty(prev, getPropertyName(self, key),
                                      IF InstanceOfLong(value) /\ self.convertLongToString
                                        THEN LongToString(value) ELSE value)
                   ELSE IF TypeOf(value) = "object"
                     THEN SetProperty(prev, getPropertyName(self, key), value)
                   ELSE SetProperty(prev, getPropertyName(self, key), value)
    IN  newObject[Len(entries)]
  ELSE
    LET elems == Target(obj).v
        mapped[i \in 0..Len(elems)] ==
          IF i = 0 THEN Arr(<<>>)
          ELSE LET prev == mapped[i - 1]
               IN  IF IsThrown(prev) THEN prev
                   ELSE LET r == Camel_objectToFixedCasing_Shallow(self, elems[i], depth + 1)
                        IN  IF IsThrown(r) THEN r ELSE Arr(Append(prev.v, r))
    IN  mapped[Len(elems)]


\* UnderscoreCqlToCamelCaseMappings.objectToFixedCasing
RECURSIVE Camel_objectToFixedCasing(_, _, _)
Camel_objectToFixedCasing(self, obj, depth) ==
  IF depth > StackLimit THEN RangeError
  ELSE IF TypeOf(obj) # "object" \/ IsNull(obj) THEN obj
  ELSE IF ~IsArray(obj) THEN
    LET entries == ObjectEntries(obj)
        newObject[i \in 0..Len(entries)] ==
          IF i = 0 THEN Obj(<<>>)
          ELSE LET key == entries[i][1]
                   value == entries[i][2]
                   prev == newObject[i - 1]
               IN  IF IsThrown(prev) THEN prev
                   ELSE IF InstanceOfDate(value) \/ IsNull(value) \/ InstanceOfLong(value)
                     THEN SetProperty(prev, getPropertyName(self, key),
                                      IF InstanceOfLong(value) /\ self.convertLongToString
                                        THEN LongToString(value) ELSE value)
                   ELSE IF TypeOf(value) = "object"
                     THEN LET r == Camel_objectToFixedCasing(self, value, depth + 1)
                          IN  IF IsThrown(r) THEN r
                              ELSE SetProperty(prev, getPropertyName(self, key), r)
                   ELSE SetProperty(prev, getPropertyName(self, key), value)
    IN  newObject[Len(entries)]
  ELSE
    LET elems == Target(obj).v
        mapped[i \in 0..Len(elems)] ==
          IF i = 0 THEN Arr(<<>>)
          ELSE LET prev == mapped[i - 1]
               IN  IF IsThrown(prev) THEN prev
                   ELSE LET r == Camel_objectToFixedCasing(self, elems[i], depth + 1)
                        IN  IF IsThrown(r) THEN r ELSE Arr(Append(prev.v, r))
    IN  mapped[Len(elems)]


\* UnderscoreCqlToCamelCaseMappings.objectToArray that wraps null like any
\* other value that is no object.
Camel_objectToArray_NullKept(self, obj) ==
  IF TypeOf(obj) # "object" \/ IsNull(obj)
    THEN Arr(<<obj>>)
  ELSE
    LET entries == ObjectEntries(obj)
        Output[i \in 0..Len(entries)] ==
          IF i = 0 THEN Arr(<<>>)
          ELSE LET value == entries[i][2]
                   prev == Output[i - 1]
               IN  IF IsThrown(prev) THEN prev
                   ELSE IF TypeOf(value) = "object"
                     THEN LET r == Camel_objectToTableCasing(self, value, 2)
                          IN  IF IsThrown(r) THEN r ELSE Arr(Append(prev.v, r))
                   ELSE Arr(Append(prev.v, value))
    IN  Output[Len(entries)]


\* UnderscoreCqlToCamelCaseMappings.objectToArray
Camel_objectToArray(self, obj) ==
  IF TypeOf(obj) # "object" \/ IsNull(obj)
    THEN IF IsNull(obj) THEN Arr(<<>>) ELSE Arr(<<obj>>)
  ELSE
    LET entries == ObjectEntries(obj)
        Output[i \in 0..Len(entries)] ==
          IF i = 0 THEN Arr(<<>>)
          ELSE LET value == entries[i][2]
                   prev == Output[i - 1]
               IN  IF IsThrown(prev) THEN prev
                   ELSE IF TypeOf(value) = "object"
                     THEN LET r == Camel_objectToTableCasing(self, value, 2)
                          IN  IF IsThrown(r) THEN r ELSE Arr(Append(prev.v, r))
                   ELSE Arr(Append(prev.v, value))
    IN  Output[Len(entries)]


\* UnderscoreCqlToPascalCaseMappings.objectToTableCasing
RECURSIVE Pascal_objectToTableCasing(_, _, _)
Pascal_objectToTableCasing(self, obj, depth) ==
  IF depth > StackLimit THEN RangeError
  ELSE IF TypeOf(obj) # "object" \/ IsNull(obj) THEN obj
  ELSE IF ~IsArray(obj) THEN
    LET entries == ObjectEntries(obj)
        newObject[i \in 0..Len(entries)] ==
          IF i = 0 THEN Obj(<<>>)
          ELSE LET key == entries[i][1]
                   value == entries[i][2]
                   prev == newObject[i - 1]
               IN  IF IsThrown(prev) THEN prev
                   ELSE IF InstanceOfDate(value) \/ IsNull(value) \/ InstanceOfLong(value)
                     THEN SetProperty(prev, getColumnName(self, key),
                                      value)
                   ELSE IF TypeOf(value) = "object"
                     THEN LET r == Pascal_objectToTableCasing(self, value, depth + 1)
                          IN  IF IsThrown(r) THEN r
                              ELSE SetProperty(prev, getColumnName(self, key), r)
                   ELSE SetProperty(prev, getColumnName(self, key), value)
    IN  newObject[Len(entries)]
  ELSE
    LET elems == Target(obj).v
        mapped[i \in 0..Len(elems)] ==
          IF i = 0 THEN Arr(<<>>)
          ELSE LET prev == mapped[i - 1]
               IN  IF IsThrown(prev) THEN prev
                   ELSE LET r == Pascal_objectToTableCasing(self, elems[i], depth + 1)
                        IN  IF IsThrown(r) THEN r ELSE Arr(Append(prev.v, r))
    IN  mapped[Len(elems)]


\* UnderscoreCqlToPascalCaseMappings.objectToFixedCasing
RECURSIVE Pascal_objectToFixedCasing(_, _, _)
Pascal_objectToFixedCasing(self, obj, depth) ==
  IF depth > StackLimit THEN RangeError
  ELSE IF TypeOf(obj) # "object" \/ IsNull(obj) THEN obj
  ELSE IF ~IsArray(obj) THEN
    LET entries == ObjectEntries(obj)
        newObject[i \in 0..Len(entries)] ==
          IF i = 0 THEN Obj(<<>>)
          ELSE LET key == entries[i][1]
                   value == entries[i][2]
                   prev == newObject[i - 1]
               IN  IF IsThrown(prev) THEN prev
                   ELSE IF InstanceOfDate(value) \/ IsNull(value) \/ InstanceOfLong(value)
                     THEN SetProperty(prev, getPropertyName(self, key),
                                      IF InstanceOfLong(value) /\ self.convertLongToString
                                        THEN LongToString(value) ELSE value)
                   ELSE IF TypeOf(value) = "object"
                     THEN LET r == Pascal_objectToFixedCasing(self, value, depth + 1)
                          IN  IF IsThrown(r) THEN r
                              ELSE SetProperty(prev, getPropertyName(self, key), r)
                   ELSE SetProperty(prev, getPropertyName(self, key), value)
    IN  newObject[Len(entries)]
  ELSE
    LET elems == Target(obj).v
        mapped[i \in 0..Len(elems)] ==
          IF i = 0 THEN Arr(<<>>)
          ELSE LET prev == mapped[i - 1]
               IN  IF IsThrown(prev) THEN prev
                   ELSE LET r == Pascal_objectToFixedCasing(self, elems[i], depth + 1)
                        IN  IF IsThrown(r) THEN r ELSE Arr(Append(prev.v, r))
    IN  mapped[Len(elems)]


\* UnderscoreCqlToPascalCaseMappings.objectToArray
Pascal_objectToArray(self, obj) ==
  IF TypeOf(obj) # "object" \/ IsNull(obj)
    THEN IF IsNull(obj) THEN Arr(<<>>) ELSE Arr(<<obj>>)
  ELSE
    LET entries == ObjectEntries(obj)
        Output[i \in 0..Len(entries)] ==
          IF i = 0 THEN Arr(<<>>)
          ELSE LET value == entries[i][2]
                   prev == Output[i - 1]
               IN  IF IsThrown(prev) THEN prev
                   ELSE IF TypeOf(value) = "object"
                     THEN LET r == Pascal_objectToTableCasing(self, value, 2)
                          IN  IF IsThrown(r) THEN r ELSE Arr(Append(prev.v, r))
                   ELSE Arr(Append(prev.v, value))
    IN  Output[Len(entries)]


\* DefaultTableMappings.objectToTableCasing that hands back the document it
\* was given, since the Default strategy renames no key.
Default_objectToTableCasing_SameObject(self, obj, depth) == obj

\* DefaultTableMappings.objectToTableCasing
RECURSIVE Default_objectToTableCasing(_, _, _)
Default_objectToTableCasing(self, obj, depth) ==
  IF depth > StackLimit THEN RangeError
  ELSE IF TypeOf(obj) # "object" \/ IsNull(obj) THEN obj
  ELSE IF ~IsArray(obj) THEN
    LET entries == ObjectEntries(obj)
        newObject[i \in 0..Len(entries)] ==
          IF i = 0 THEN Obj(<<>>)
          ELSE LET key == entries[i][1]
                   value == entries[i][2]
                   prev == newObject[i - 1]
               IN  IF IsThrown(prev) THEN prev
                   ELSE IF InstanceOfDate(value) \/ IsNull(value) \/ InstanceOfLong(value)
                     THEN SetProperty(prev, getColumnName(self, key),
                                      value)
                   ELSE IF TypeOf(value) = "object"
                     THEN LET r == Default_objectToTableCasing(self, value, depth + 1)
                          IN  IF IsThrown(r) THEN r
                              ELSE SetProperty(prev, getColumnName(self, key), r)
                   ELSE SetProperty(prev, getColumnName(self, key), value)
    IN  newObject[Len(entries)]
  ELSE
    LET elems == Target(obj).v
        mapped[i \in 0..Len(elems)] ==
          IF i = 0 THEN Arr(<<>>)
          ELSE LET prev == mapped[i - 1]
               IN  IF IsThrown(prev) THEN prev
                   ELSE LET r == Default_objectToTableCasing(self, elems[i], depth + 1)
                        IN  IF IsThrown(r) THEN r ELSE Arr(Append(prev.v, r))
    IN  mapped[Len(elems)]


\* DefaultTableMappings.objectToFixedCasing
RECURSIVE Default_objectToFixedCasing(_, _, _)
Default_objectToFixedCasing(self, obj, depth) ==
  IF depth > StackLimit THEN RangeError
  ELSE IF TypeOf(obj) # "object" \/ IsNull(obj) THEN obj
  ELSE IF ~IsArray(obj) THEN
    LET entries == ObjectEntries(obj)
        newObject[i \in 0..Len(entries)] ==
          IF i = 0 THEN Obj(<<>>)
          ELSE LET key == entries[i][1]
                   value == entries[i][2]
                   prev == newObject[i - 1]
               IN  IF IsThrown(prev) THEN prev
                   ELSE IF InstanceOfDate(value) \/ IsNull(value) \/ InstanceOfLong(value)
                     THEN SetProperty(prev, getPropertyName(self, key),
                                      value)
                   ELSE IF TypeOf(value) = "object"
                     THEN LET r == Default_objectToFixedCasing(self, value, depth + 1)
                          IN  IF IsThrown(r) THEN r
                              ELSE SetProperty(prev, getPropertyName(self, key), r)
                   ELSE SetProperty(prev, getPropertyName(self, key), value)
    IN  newObject[Len(entries)]
  ELSE
    LET elems == Target(obj).v
        mapped[i \in 0..Len(elems)] ==
          IF i = 0 THEN Arr(<<>>)
          ELSE LET prev == mapped[i - 1]
               IN  IF IsThrown(prev) THEN prev
                   ELSE LET r == Default_objectToFixedCasing(self, elems[i], depth + 1)
                        IN  IF IsThrown(r) THEN r ELSE Arr(Append(prev.v, r))
    IN  mapped[Len(elems)]


\* DefaultTableMappings.objectToArray
Default_objectToArray(self, obj) ==
  IF TypeOf(obj) # "object" \/ IsNull(obj)
    THEN IF IsNull(obj) THEN Arr(<<>>) ELSE Arr(<<obj>>)
  ELSE
    LET entries == ObjectEntries(obj)
        Output[i \in 0..Len(entries)] ==
          IF i = 0 THEN Arr(<<>>)
          ELSE LET value == entries[i][2]
                   prev == Output[i - 1]
               IN  IF IsThrown(prev) THEN prev
                   ELSE IF TypeOf(value) = "object"
                     THEN LET r == Default_objectToTableCasing(self, value, 2)
                          IN  IF IsThrown(r) THEN r ELSE Arr(Append(prev.v, r))
                   ELSE Arr(Append(prev.v, value))
    IN  Output[Len(entries)]


\* The methods the mapper calls, on the instance's class.
objectToTableCasing(self, obj) ==
  CASE self.class = "Camel"   -> Camel_objectToTableCasing(self, obj, 1)
    [] self.class = "Pascal"  -> Pascal_objectToTableCasing(self, obj, 1)
    [] self.class = "Default" -> Default_objectToTableCasing(self, obj, 1)

objectToFixedCasing(self, obj) ==
  CASE self.class = "Camel"   -> Camel_objectToFixedCasing(self, obj, 1)
    [] self.class = "Pascal"  -> Pascal_objectToFixedCasing(self, obj, 1)
    [] self.class = "Default" -> Default_objectToFixedCasing(self, obj, 1)

objectToArray(self, obj) ==
  CASE self.class = "Camel"   -> Camel_objectToArray(self, obj)
    [] self.class = "Pascal"  -> Pascal_objectToArray(self, obj)
    [] self.class = "Default" -> Default_objectToArray(self, obj)

\* TableMappings.newObjectInstance and its overrides: a fresh empty object.
newObjectInstance(self) == Obj(<<>>)

\* ------------------------------------------- conversions, step by step
\* A conversion as the engine runs it: a stack of activations, one for every
\* call of objectToArray / objectToFixedCasing / objectToTableCasing that
\* has not returned. An activation holds what the call's locals hold: fn,
\* the method; obj, its argument; i, the entry (or element) the loop is at;
\* out, the local newObject / Output / array of obj.map, as far as built.
NewFrame(fn, obj) ==
  [fn |-> fn, obj |-> obj, i |-> 1,
   out |-> IF fn = "objectToArray" \/ IsArray(obj) THEN Arr(<<>>) ELSE Obj(<<>>)]

\* No value yet: the call has not returned.
Pending == [t |-> "pending", v |-> 0]

\* A conversion the mapper is about to start: fn(doc).
NewTask(fn, doc) == [fn |-> fn, doc |-> doc, stack |-> <<>>, result |-> Pending]

Running(task) == task.stack # <<>>
Done(task) == task.stack = <<>> /\ task.result # Pending

\* this.getColumnName(key) in objectToTableCasing, this.getPropertyName(key)
\* in objectToFixedCasing.
KeyOf(self, fn, key) ==
  IF fn = "objectToTableCasing" THEN getColumnName(self, key)
  ELSE getPropertyName(self, key)

\* The value stored for a Date, null or Long: value.toString() for a Long
\* when convertLongToString is set, in the methods that have that test
\* (both Camel methods and Pascal's objectToFixedCasing); else value.
LeafOf(self, fn, value) ==
  IF /\ InstanceOfLong(value)
     /\ self.convertLongToString
     /\ \/ self.class = "Camel"
        \/ self.class = "Pascal" /\ fn = "objectToFixedCasing"
    THEN LongToString(value)
    ELSE value

\* newObject[name] = value, Output.push(value), or the next element of the
\* array obj.map builds: the running activation stores value for the entry
\* it is at and moves to the next entry.
Store(self, task, value) ==
  LET d == Len(task.stack)
      f == task.stack[d]
      key == ObjectEntries(f.obj)[f.i][1]
      out == IF f.out.t = "Array"
               THEN Arr(Append(f.out.v, value))
               ELSE SetProperty(f.out, KeyOf(self, f.fn, key), value)
  IN  [task EXCEPT !.stack[d] = [f EXCEPT !.i = f.i + 1, !.out = out]]

\* value goes to the caller: the activation below, or the mapper.
Deliver(self, task, value) ==
  IF task.stack = <<>> THEN [task EXCEPT !.result = value]
  ELSE Store(self, task, value)

\* this.fn(v): RangeError when the stack is full, which no method catches;
\* the early return of the first line for what is no object, or null; else
\* a new activation.
Invoke(self, task, fn, v) ==
  IF Len(task.stack) + 1 > StackLimit
    THEN [task EXCEPT !.stack = <<>>, !.result = RangeError]
  ELSE IF TypeOf(v) # "object" \/ IsNull(v)
    THEN Deliver(self, task,
                 IF fn = "objectToArray"
                   THEN IF IsNull(v) THEN Arr(<<>>) ELSE Arr(<<v>>)
                   ELSE v)
  ELSE [task EXCEPT !.stack = Append(@, NewFrame(fn, v))]

\* One step of a conversion: the mapper's call; or the body of the loop for
\* the entry the running activation is at; or, past the last entry, its
\* return.
StepTask(self, task) ==
  IF task.stack = <<>> THEN Invoke(self, task, task.fn, task.doc)
  ELSE
    LET d == Len(task.stack)
        f == task.stack[d]
        entries == ObjectEntries(f.obj)
    IN  IF f.i > Len(entries)
          THEN Deliver(self, [task EXCEPT !.stack = SubSeq(@, 1, d - 1)], f.out)
        ELSE
          LET value == entries[f.i][2]
          IN  IF f.fn = "objectToArray"
                THEN IF TypeOf(value) = "object"
                       THEN Invoke(self, task, "objectToTableCasing", value)
                       ELSE Store(self, task, value)
              ELSE IF IsArray(f.obj)
                THEN Invoke(self, task, f.fn, value)
              ELSE IF InstanceOfDate(value) \/ IsNull(value) \/ InstanceOfLong(value)
                THEN Store(self, task, LeafOf(self, f.fn, value))
              ELSE IF TypeOf(value) = "object"
                THEN Invoke(self, task, f.fn, value)
              ELSE Store(self, task, value)

\* A step of conversion k that writes one newObject kept on the instance:
\* every running conversion then has, as its newObject, what k wrote.
StepOf_NewObjectOnInstance(self, ts, k) ==
  LET next == StepTask(self, ts[k])
  IN  [j \in DOMAIN ts |->
         IF j = k THEN next
         ELSE IF Running(ts[j]) /\ Running(next)
           THEN [ts[j] EXCEPT !.stack[Len(ts[j].stack)].out =
                                 next.stack[Len(next.stack)].out]
         ELSE ts[j]]

\* A step of conversion k among the conversions ts: it reads the instance
\* and the document, and writes the locals of k's own activations only.
StepOf(self, ts, k) == [ts EXCEPT ![k] = StepTask(self, ts[k])]

\* Reading .split of null or undefined, and calling the .split a number or
\* an object does not have, throws TypeError.
TypeError == Thrown("TypeError")

\* getColumnName / getPropertyName called with any value x: the base class
\* (and Default, through super) returns x as it is; Camel and Pascal start
\* with x.split(...), which only a string has.
CallGetColumnName(self, x) ==
  IF x.t = "string" THEN Str(getColumnName(self, x.v))
  ELSE IF self.class = "Default" THEN x
  ELSE TypeError

CallGetPropertyName(self, x) ==
  IF x.t = "string" THEN Str(getPropertyName(self, x.v))
  ELSE IF self.class = "Default" THEN x
  ELSE TypeError

\* ---------------------------------------------------------------- inputs
\* Every string over alphabet of length 0..n.
Strings(alphabet, n) ==
  UNION {[1..k -> alphabet] : k \in 0..n}

\* Every spelling of word w in upper and lower case letters.
CaseMixes(w) ==
  {[i \in 1..Len(w) |-> IF i \in U THEN CharToUpperCase(w[i]) ELSE w[i]] :
     U \in SUBSET (1..Len(w))}

\* Letters that spell the reserved words add, and, nan.
Alphabet == {"a", "d", "n", "A", "D", "N"}

userId == <<"u","s","e","r","I","d">>
userID == <<"u","s","e","r","I","D">>
user_id == <<"u","s","e","r","_","i","d">>
zipCode == <<"z","i","p","C","o","d","e">>
address == <<"a","d","d","r","e","s","s">>
UserId == <<"U","s","e","r","I","d">>
in == <<"i","n">>

\* Property names given to getColumnName: every short name over Alphabet,
\* the mapper's usual names, and every spelling of every reserved word.
PropertyNames ==
  Strings(Alphabet, MaxNameLen)
    \cup {userId, userID, zipCode, address, UserId}
    \cup UNION {CaseMixes(ReservedWords[i]) : i \in 1..Len(ReservedWords)}

\* Column names given to getPropertyName: every short name of lower-case
\* letters and underscores, and the columns of the names above.
ColumnNames ==
  Strings({"a", "d", "_"}, MaxNameLen)
    \cup {user_id, <<"u","s","e","r","_","i","_","d">>,
          <<"z","i","p","_","c","o","d","e">>, <<"i","n","_">>,
          <<"s","e","l","e","c","t","_">>}

\* Values that are no string, given where a name is expected.
NonStrings == {Null, Undefined, Num(1), Obj(<<>>)}

Leaves ==
  {Num(1), Str(<<"X">>), Bool(TRUE), Null, DateOf(0), LongOf(5), LongOf(-12)}

DocKeys == {userId, user_id, zipCode, in}

\* Documents nested at most n deep: a leaf, an empty mapping or sequence, a
\* mapping of one key, a mapping of two keys (one of them a number: the
\* mapper's { userId: 1, address: ... }, and two keys that take the same
\* column name), a sequence of one and of two elements.
RECURSIVE Docs(_)
Docs(n) ==
  IF n = 0 THEN Leaves
  ELSE LET inner == Docs(n - 1)
       IN  Leaves
             \cup {Obj(<<>>), Arr(<<>>)}
             \cup {Obj(<< <<k, x>> >>) : k \in DocKeys, x \in inner}
             \cup {Obj(<< <<userId, Num(1)>>, <<address, x>> >>) : x \in inner}
             \cup {Obj(<< <<userId, Num(1)>>, <<user_id, x>> >>) : x \in inner}
             \cup {Arr(<<x>>) : x \in inner}
             \cup {Arr(<<Str(<<"X">>), x>>) : x \in inner}

\* Structures that reach objects of Heap: the cyclic ones, alone and nested,
\* and the shared acyclic one.
HeapDocs ==
  {Ref(a) : a \in DOMAIN Heap}
    \cup {Obj(<< <<userId, Ref(a)>> >>) : a \in DOMAIN Heap}
    \cup {Arr(<<Num(1), Ref(a)>>) : a \in DOMAIN Heap}

Documents == Docs(MaxDepth) \cup HeapDocs

\* The instances the mapper can build.
Instances ==
  {NewInstance("Default", FALSE)}
    \cup {NewInstance(c, f) : c \in {"Camel", "Pascal"}, f \in BOOLEAN}

\* ------------------------------------------------------------------ state
\* self: the strategy instance; heap: the objects the caller holds, which
\* the documents reach by reference; pc: "idle" between calls, "returned"
\* when a call has ended; op, arg, ret: the method called, its argument and
\* what it returned or threw; tasks: the conversions running step by step;
\* overlapped: whether a conversion took a step while another was running.
VARIABLES self, heap, pc, op, arg, ret, tasks, overlapped

vars == <<self, heap, pc, op, arg, ret, tasks, overlapped>>

Init ==
  /\ self \in Instances
  /\ heap = Heap
  /\ pc = "idle"
  /\ op = "none"
  /\ arg = Undefined
  /\ ret = Undefined
  /\ tasks = <<>>
  /\ overlapped = FALSE

Call(name, x, result) ==
  /\ pc' = "returned"
  /\ op' = name
  /\ arg' = x
  /\ ret' = result
  /\ UNCHANGED <<self, heap, tasks, overlapped>>

GetColumnName ==
  /\ pc = "idle"
  /\ \E x \in {Str(p) : p \in PropertyNames \cup ColumnNames} \cup NonStrings :
       Call("getColumnName", x, CallGetColumnName(self, x))

GetPropertyName ==
  /\ pc = "idle"
  /\ \E x \in {Str(c) : c \in ColumnNames} \cup NonStrings :
       Call("getPropertyName", x, CallGetPropertyName(self, x))

ObjectToArray ==
  /\ pc = "idle"
  /\ \E d \in Documents : Call("objectToArray", d, objectToArray(self, d))

ObjectToFixedCasing ==
  /\ pc = "idle"
  /\ \E d \in Documents : Call("objectToFixedCasing", d, objectToFixedCasing(self, d))

ObjectToTableCasing ==
  /\ pc = "idle"
  /\ \E d \in Documents : Call("objectToTableCasing", d, objectToTableCasing(self, d))

NewObjectInstance ==
  /\ pc = "idle"
  /\ Call("newObjectInstance", Undefined, newObjectInstance(self))

\* The caller takes the result; the instance is ready for the next call.
Return ==
  /\ pc = "returned"
  /\ pc' = "idle"
  /\ op' = "none"
  /\ arg' = Undefined
  /\ ret' = Undefined
  /\ UNCHANGED <<self, heap, tasks, overlapped>>

Next ==
  \/ GetColumnName
  \/ GetPropertyName
  \/ ObjectToArray
  \/ ObjectToFixedCasing
  \/ ObjectToTableCasing
  \/ NewObjectInstance
  \/ Return

Spec == Init /\ [][Next]_vars

\* ------------------------------------------------- interleaved conversions
Conversions == {"objectToArray", "objectToFixedCasing", "objectToTableCasing"}

\* Documents converted side by side: nested mappings and sequences, keys
\* that take the same name, Long and Date leaves, scalars, and documents
\* that reach the caller's shared and cyclic objects.
InterleavedDocuments ==
  {Num(1), Null,
   Obj(<< <<userId, Obj(<< <<zipCode, Str(<<"X">>)>> >>)>> >>),
   Obj(<< <<userId, Num(1)>>, <<user_id, Arr(<<Str(<<"X">>), DateOf(0)>>)>> >>),
   Obj(<< <<in, LongOf(5)>>, <<user_id, Null>> >>),
   Arr(<<Num(1), Ref(4)>>),
   Ref(4), Ref(1), Ref(2)}

\* Two conversions on one instance, on two different documents, neither
\* started yet.
InitInterleaved ==
  /\ self \in Instances
  /\ heap = Heap
  /\ pc = "idle"
  /\ op = "none"
  /\ arg = Undefined
  /\ ret = Undefined
  /\ \E f1 \in Conversions, f2 \in Conversions :
       \E d1 \in InterleavedDocuments, d2 \in InterleavedDocuments :
         /\ d1 # d2
         /\ tasks = <<NewTask(f1, d1), NewTask(f2, d2)>>
  /\ overlapped = FALSE

\* Conversion k takes its next step, whatever the others are at.
Step(k) ==
  /\ tasks' = StepOf(self, tasks, k)
  /\ overlapped' = (overlapped \/ \E j \in DOMAIN tasks : j # k /\ Running(tasks[j]))
  /\ UNCHANGED <<self, heap, pc, op, arg, ret>>

\* The mapper calls the method of conversion k.
Start(k) ==
  /\ tasks[k].stack = <<>>
  /\ tasks[k].result = Pending
  /\ Step(k)

\* The running activation of conversion k handles the entry it is at.
Iterate(k) ==
  /\ Running(tasks[k])
  /\ LET f == tasks[k].stack[Len(tasks[k].stack)]
     IN  f.i <= Len(ObjectEntries(f.obj))
  /\ Step(k)

\* The running activation of conversion k, past its last entry, returns.
Finish(k) ==
  /\ Running(tasks[k])
  /\ LET f == tasks[k].stack[Len(tasks[k].stack)]
     IN  f.i > Len(ObjectEntries(f.obj))
  /\ Step(k)

NextInterleaved ==
  \/ \E k \in DOMAIN tasks : Start(k)
  \/ \E k \in DOMAIN tasks : Iterate(k)
  \/ \E k \in DOMAIN tasks : Finish(k)

SpecInterleaved == InitInterleaved /\ [][NextInterleaved]_vars


\* ------------------------------------------------------- reading a result
Returned(name) == pc = "returned" /\ op = name

\* A call of name with a string has returned.
ReturnedOfString(name) == Returned(name) /\ arg.t = "string"

IsScalar(x) == x.t \in {"number", "string", "boolean"}

AllLetters(s) == \A i \in 1..Len(s) : IsUpper(s[i]) \/ IsLower(s[i])

\* The value a plain object holds under key.
GetProperty(o, key) == o.v[CHOOSE i \in 1..Len(o.v) : o.v[i][1] = key][2]

\* The name the conversion that was called gives key.
ConvertedKey(key) ==
  IF op = "objectToFixedCasing"
    THEN getPropertyName(self, key)
    ELSE getColumnName(self, key)

\* The conversion that was called, applied to x.
Convert(x) ==
  IF op = "objectToFixedCasing"
    THEN objectToFixedCasing(self, x)
    ELSE objectToTableCasing(self, x)

\* Entry i of mapping o is the only one that takes its converted name.
OnlyEntry(o, i) ==
  \A j \in 1..Len(o.v) :
     j # i => ConvertedKey(o.v[j][1]) # ConvertedKey(o.v[i][1])

Casing == {"objectToTableCasing", "objectToFixedCasing"}

\* ------------------------------------------------------------------ C1
\* C1: objectToTableCasing called on a top-level leaf (a scalar, null, a
\* Date, or a Long with convertLongToString off) returns that very value,
\* in each of the three strategies.
C1_LeafReturnedIdentical ==
  (/\ Returned("objectToTableCasing")
   /\ \/ IsScalar(arg)
      \/ IsNull(arg)
      \/ arg.t = "Date"
      \/ arg.t = "Long" /\ ~self.convertLongToString)
    => ret = arg

\* ------------------------------------------------------------------ C2
\* C2: a Date or a Long is a leaf wherever it occurs: under a key of a
\* mapping, as an element of a sequence, and as a value of the mapping
\* given to objectToArray; nowhere is it rebuilt as a plain object.
C2_TemporalNeverWalked ==
  /\ (pc = "returned" /\ op \in Casing /\ arg.t = "Object" /\ ~IsThrown(ret))
       => \A i \in 1..Len(arg.v) :
            (arg.v[i][2].t \in {"Date", "Long"} /\ OnlyEntry(arg, i))
              => GetProperty(ret, ConvertedKey(arg.v[i][1])).t # "Object"
  /\ (pc = "returned" /\ op \in Casing /\ arg.t = "Array" /\ ~IsThrown(ret))
       => \A i \in 1..Len(arg.v) :
            arg.v[i].t \in {"Date", "Long"} => ret.v[i].t # "Object"
  /\ (Returned("objectToArray") /\ arg.t = "Object" /\ ~IsThrown(ret))
       => \A i \in 1..Len(arg.v) :
            arg.v[i][2].t \in {"Date", "Long"} => ret.v[i].t # "Object"

\* ------------------------------------------------------------------ C3
\* C3: in the Camel and Pascal strategies a Long under a key of a document
\* comes out as its decimal string when convertLongToString is on, and as
\* the same Long when it is off, from objectToTableCasing and from
\* objectToFixedCasing alike.
C3_LongFollowsFlag ==
  (/\ pc = "returned" /\ op \in Casing
   /\ self.class \in {"Camel", "Pascal"}
   /\ arg.t = "Object" /\ ~IsThrown(ret))
    => \A i \in 1..Len(arg.v) :
         (arg.v[i][2].t = "Long" /\ OnlyEntry(arg, i))
           => GetProperty(ret, ConvertedKey(arg.v[i][1]))
                = IF self.convertLongToString
                    THEN LongToString(arg.v[i][2])
                    ELSE arg.v[i][2]

\* ------------------------------------------------------------------ C4
\* The segmentation C4 states: an underscore goes before each upper-case
\* letter that is not the first character and has a lower-case letter
\* before it or after it; the whole is then put in lower case.
ThreeWayLookahead(p) ==
  LET starts(i) ==
        /\ i > 1
        /\ IsUpper(p[i])
        /\ \/ IsLower(p[i - 1])
           \/ i < Len(p) /\ IsLower(p[i + 1])
      F[i \in 0..Len(p)] ==
        IF i = 0 THEN <<>>
        ELSE F[i - 1] \o (IF starts(i) THEN <<"_">> ELSE <<>>)
                      \o <<CharToLowerCase(p[i])>>
  IN  F[Len(p)]

\* C4: for a property name of ASCII letters (reserved words aside),
\* getColumnName of the Camel and Pascal strategies segments the name as
\* ThreeWayLookahead does, and so returns what the snakeCase type of
\* index.d.ts gives.
C4_ColumnNameIsThreeWaySnakeCase ==
  (/\ ReturnedOfString("getColumnName")
   /\ self.class \in {"Camel", "Pascal"}
   /\ AllLetters(arg.v)
   /\ ~includes(self.ReservedWords, toLowerCase(arg.v)))
    => /\ ret.v = ThreeWayLookahead(arg.v)
       /\ ret.v = snakeCase(arg.v, "")

\* ------------------------------------------------------------------ C5
NoUpperAfterFirst(p) == \A i \in 2..Len(p) : ~IsUpper(p[i])

\* C5 as first stated: every spelling p of a reserved word w, in any mix of
\* upper and lower case, has the column name w followed by an underscore.
C5_AnySpellingEscaped ==
  (/\ ReturnedOfString("getColumnName")
   /\ self.class \in {"Camel", "Pascal"}
   /\ includes(self.ReservedWords, toLowerCase(arg.v)))
    => ret.v = toLowerCase(arg.v) \o <<"_">>

\* C5, amended: every spelling p of a reserved word w with no upper-case
\* letter after its first character (w itself, or w capitalised) has the
\* column name w followed by an underscore.
C5_PlainSpellingEscaped ==
  (/\ ReturnedOfString("getColumnName")
   /\ self.class \in {"Camel", "Pascal"}
   /\ includes(self.ReservedWords, toLowerCase(arg.v))
   /\ NoUpperAfterFirst(arg.v))
    => ret.v = toLowerCase(arg.v) \o <<"_">>

\* Select was converted to select_ by the Pascal strategy.
C5_Witness ==
  /\ Returned("getColumnName")
  /\ self.class = "Pascal"
  /\ arg = Str(<<"S","e","l","e","c","t">>)
  /\ ret = Str(<<"s","e","l","e","c","t","_">>)

\* ------------------------------------------------------------------ C6
HasInnerUpper(x) == \E i \in 2..Len(x) : IsUpper(x[i])

\* C6 as first stated: every name x of ASCII letters with an upper-case
\* letter after its first character is given back by getPropertyName from
\* getColumnName(x), under the Camel and under the Pascal strategy.
C6_RoundTripAnyFirstLetter ==
  (/\ ReturnedOfString("getColumnName")
   /\ self.class \in {"Camel", "Pascal"}
   /\ AllLetters(arg.v) /\ HasInnerUpper(arg.v))
    => getPropertyName(self, ret.v) = arg.v

\* C6, amended: the round trip holds for the names in the strategy's own
\* casing: first letter lower-case under Camel, upper-case under Pascal.
C6_RoundTripMatchingCase ==
  (/\ ReturnedOfString("getColumnName")
   /\ self.class \in {"Camel", "Pascal"}
   /\ AllLetters(arg.v) /\ HasInnerUpper(arg.v)
   /\ IF self.class = "Camel" THEN IsLower(arg.v[1]) ELSE IsUpper(arg.v[1]))
    => getPropertyName(self, ret.v) = arg.v

\* userID became user_i_d under Camel, which getPropertyName turns back.
C6_Witness ==
  /\ Returned("getColumnName")
  /\ self.class = "Camel"
  /\ arg = Str(userID)
  /\ ret = Str(<<"u","s","e","r","_","i","_","d">>)
  /\ getPropertyName(self, ret.v) = userID

\* ------------------------------------------------------------------ C7
IsCamelName(k) == Len(k) >= 1 /\ AllLetters(k) /\ IsLower(k[1])

\* An acyclic document of mappings with camelCase keys, sequences, and
\* scalar or null leaves.
RECURSIVE IsCamelDoc(_)
IsCamelDoc(x) ==
  CASE IsScalar(x) \/ IsNull(x) -> TRUE
    [] x.t = "Object" ->
         \A i \in 1..Len(x.v) : IsCamelName(x.v[i][1]) /\ IsCamelDoc(x.v[i][2])
    [] x.t = "Array" -> \A i \in 1..Len(x.v) : IsCamelDoc(x.v[i])
    [] OTHER -> FALSE

\* x with every key, at every level, replaced by its column name and every
\* leaf kept.
RECURSIVE RenamedKeys(_)
RenamedKeys(x) ==
  CASE x.t = "Object" ->
         Obj([i \in 1..Len(x.v) |->
                <<getColumnName(self, x.v[i][1]), RenamedKeys(x.v[i][2])>>])
    [] x.t = "Array" -> Arr([i \in 1..Len(x.v) |-> RenamedKeys(x.v[i])])
    [] OTHER -> x

\* C7: under Camel, objectToTableCasing of such a document is the document
\* with every key renamed by getColumnName and every leaf kept, and
\* objectToFixedCasing of that result is deep-equal to the document.
C7_CamelStructuralRoundTrip ==
  (/\ Returned("objectToTableCasing")
   /\ self.class = "Camel"
   /\ IsCamelDoc(arg))
    => /\ ret = RenamedKeys(arg)
       /\ objectToFixedCasing(self, ret) = arg

\* { userId: 1, address: { zipCode: 'X' } } became
\* { user_id: 1, address: { zip_code: 'X' } }.
C7_Witness ==
  /\ Returned("objectToTableCasing")
  /\ self.class = "Camel"
  /\ arg = Obj(<< <<userId, Num(1)>>,
                  <<address, Obj(<< <<zipCode, Str(<<"X">>)>> >>)>> >>)
  /\ ret = Obj(<< <<user_id, Num(1)>>,
                  <<address,
                    Obj(<< <<<<"z","i","p","_","c","o","d","e">>, Str(<<"X">>)>> >>)>> >>)

\* ------------------------------------------------------------------ C8
\* out is a sequence as long as the sequence in, and its i-th element is
\* the conversion of the i-th element of in.
ElementwiseImage(in_, out) ==
  /\ out.t = "Array"
  /\ Len(out.v) = Len(in_.v)
  /\ \A i \in 1..Len(in_.v) : out.v[i] = Convert(in_.v[i])

\* C8: objectToTableCasing and objectToFixedCasing turn every sequence (the
\* argument itself, one under a key of a mapping, one inside another
\* sequence) into a sequence of the same length whose i-th element is the
\* conversion of the i-th input element.
C8_SequencePreserved ==
  (pc = "returned" /\ op \in Casing /\ ~IsThrown(ret))
    => /\ arg.t = "Array" =>
            /\ ElementwiseImage(arg, ret)
            /\ \A i \in 1..Len(arg.v) :
                 arg.v[i].t = "Array" => ElementwiseImage(arg.v[i], ret.v[i])
       /\ arg.t = "Object" =>
            \A i \in 1..Len(arg.v) :
              (arg.v[i][2].t = "Array" /\ OnlyEntry(arg, i))
                => ElementwiseImage(arg.v[i][2],
                                    GetProperty(ret, ConvertedKey(arg.v[i][1])))

\* [ 'X', { userId: 1 } ] became [ 'X', { user_id: 1 } ].
C8_Witness ==
  /\ Returned("objectToTableCasing")
  /\ self.class = "Pascal"
  /\ arg = Arr(<<Str(<<"X">>), Obj(<< <<userId, Num(1)>> >>)>>)
  /\ ret = Arr(<<Str(<<"X">>), Obj(<< <<user_id, Num(1)>> >>)>>)

\* ------------------------------------------------------------------ C9
\* C9: objectToArray gives [] for null, [x] for an x that is no object, and
\* for a mapping of n keys a sequence of n elements, the i-th being the
\* i-th value itself when it is a scalar and objectToTableCasing of it
\* when it is a mapping or a sequence; in every strategy.
C9_ObjectToArray ==
  Returned("objectToArray")
    => /\ IsNull(arg) => ret = Arr(<<>>)
       /\ TypeOf(arg) # "object" => ret = Arr(<<arg>>)
       /\ (arg.t = "Object" /\ ~IsThrown(ret)) =>
            /\ ret.t = "Array"
            /\ Len(ret.v) = Len(arg.v)
            /\ \A i \in 1..Len(arg.v) :
                 LET value == arg.v[i][2]
                 IN  /\ IsScalar(value) => ret.v[i] = value
                     /\ value.t \in {"Object", "Array"}
                          => ret.v[i] = objectToTableCasing(self, value)

\* { userId: 1, address: { zipCode: 'X' } } became [ 1, { zip_code: 'X' } ].
C9_Witness ==
  /\ Returned("objectToArray")
  /\ self.class = "Camel"
  /\ arg = Obj(<< <<userId, Num(1)>>,
                  <<address, Obj(<< <<zipCode, Str(<<"X">>)>> >>)>> >>)
  /\ ret = Arr(<<Num(1),
                 Obj(<< <<<<"z","i","p","_","c","o","d","e">>, Str(<<"X">>)>> >>)>>)

\* ----------------------------------------------------------------- C10
\* The objects of Heap a value refers to directly.
RECURSIVE RefsIn(_)
RefsIn(x) ==
  CASE x.t = "ref" -> {x.v}
    [] x.t = "Object" -> UNION {RefsIn(x.v[i][2]) : i \in 1..Len(x.v)}
    [] x.t = "Array" -> UNION {RefsIn(x.v[i]) : i \in 1..Len(x.v)}
    [] OTHER -> {}

\* The objects of Heap reached from the set S of them.
RECURSIVE ReachedFrom(_)
ReachedFrom(S) ==
  LET more == S \cup UNION {RefsIn(Heap[a]) : a \in S}
  IN  IF more = S THEN S ELSE ReachedFrom(more)

\* x holds an object that refers to itself or to one of its ancestors.
IsCyclic(x) ==
  \E a \in ReachedFrom(RefsIn(x)) : a \in ReachedFrom(RefsIn(Heap[a]))

\* C10: objectToTableCasing and objectToFixedCasing, given a structure that
\* refers to itself or to an ancestor, end by raising StructuralError.
C10_CycleRaisesStructuralError ==
  (pc = "returned" /\ op \in Casing /\ IsCyclic(arg))
    => ret = Thrown("StructuralError")

\* ----------------------------------------------------------------- C11
\* C11: in every strategy, getColumnName and getPropertyName called with a
\* value that is no string (null, undefined, a number, an object) end in
\* the error InvalidIdentifier; none returns a value.
C11_NonStringRaisesInvalidIdentifier ==
  (/\ pc = "returned"
   /\ op \in {"getColumnName", "getPropertyName"}
   /\ arg.t # "string")
    => ret = Thrown("InvalidIdentifier")

\* ----------------------------------------------------------------- C13
\* A string of lowercase letters and underscores only.
LowerCaseOrUnderscore(s) ==
  \A i \in 1..Len(s) : IsLower(s[i]) \/ s[i] = "_"

\* The non-empty underscore-separated segments of s, in order.
NonEmptySegments(s) == SelectSeq(SplitUnderscore(s), LAMBDA w : w # <<>>)

\* The name the "skip empty segments" policy gives: the non-empty segments
\* joined, the first one unchanged under Camel, every other one with its
\* first character upper-cased.
SkipEmptySegments(class, s) ==
  LET segs == NonEmptySegments(s)
  IN  Join([k \in 1..Len(segs) |->
              IF class = "Camel" /\ k = 1 THEN segs[k]
              ELSE <<CharToUpperCase(segs[k][1])>> \o Tail(segs[k])],
           <<>>)

\* C13: getPropertyName never fails on empty segments and skips them: for
\* every string of lowercase letters and underscores (leading, trailing,
\* consecutive underscores and the empty string included) Camel returns the
\* non-empty segments joined with the first one unchanged and every later
\* one capitalised, Pascal returns them joined with every one capitalised,
\* and the result holds no underscore.
C13_EmptySegmentsSkipped ==
  (/\ ReturnedOfString("getPropertyName")
   /\ self.class \in {"Camel", "Pascal"}
   /\ LowerCaseOrUnderscore(arg.v))
    => /\ ret = Str(SkipEmptySegments(self.class, arg.v))
       /\ \A i \in 1..Len(ret.v) : ret.v[i] # "_"

\* ----------------------------------------------------------------- C15
\* w with its first letter upper-cased.
Capitalised(w) == <<CharToUpperCase(w[1])>> \o Tail(w)

\* C15: under the Camel and the Pascal strategy the column name returned
\* for any string holds no upper-case letter and is no reserved word; and
\* the column name of a reserved word w is turned back by getPropertyName
\* into w under Camel and into w capitalised under Pascal.
C15_ColumnNameLowerNeverReserved ==
  (/\ ReturnedOfString("getColumnName")
   /\ self.class \in {"Camel", "Pascal"})
    => /\ \A i \in 1..Len(ret.v) : ~IsUpper(ret.v[i])
       /\ ~includes(self.ReservedWords, ret.v)
       /\ includes(self.ReservedWords, arg.v)
            => getPropertyName(self, ret.v) =
                 IF self.class = "Camel" THEN arg.v ELSE Capitalised(arg.v)

\* The reserved word table was escaped to table_ by the Pascal strategy,
\* from which getPropertyName gives Table.
C15_Witness ==
  /\ Returned("getColumnName")
  /\ self.class = "Pascal"
  /\ arg = Str(<<"t","a","b","l","e">>)
  /\ includes(self.ReservedWords, arg.v)
  /\ ret = Str(<<"t","a","b","l","e","_">>)
  /\ getPropertyName(self, ret.v) = <<"T","a","b","l","e">>

\* ----------------------------------------------------------------- C12
\* x is, or holds at some depth, an object of the caller by reference.
RECURSIVE HoldsRef(_)
HoldsRef(x) ==
  CASE x.t = "ref"    -> TRUE
    [] x.t = "Object" -> \E i \in 1..Len(x.v) : HoldsRef(x.v[i][2])
    [] x.t = "Array"  -> \E i \in 1..Len(x.v) : HoldsRef(x.v[i])
    [] OTHER          -> FALSE

\* What a conversion or newObjectInstance returned is built anew: it is no
\* mapping or sequence of the caller, and holds none.
NewlyBuilt ==
  (/\ pc = "returned"
   /\ op \in {"objectToArray", "objectToFixedCasing", "objectToTableCasing",
              "newObjectInstance"}
   /\ ~IsThrown(ret))
    => ~HoldsRef(ret)

\* C12: no call of the six operations changes the instance (its
\* ReservedWords list and convertLongToString flag) or any object of the
\* caller that the document passed in reaches, and a returned mapping is
\* built anew, never the mapping that was passed in.
C12_SideEffectFree ==
  [][/\ self'.ReservedWords = self.ReservedWords
     /\ self'.convertLongToString = self.convertLongToString
     /\ heap' = heap
     /\ NewlyBuilt']_vars

\* The Default strategy converted the shared mapping 4 and returned a
\* mapping of the same content that is not mapping 4, which is as it was.
C12_Witness ==
  /\ Returned("objectToTableCasing")
  /\ self.class = "Default"
  /\ self.ReservedWords = ReservedWords
  /\ arg = Ref(4)
  /\ ret = Obj(<< <<zipCode, Str(<<"X">>)>> >>)
  /\ ret = heap[4]
  /\ heap = Heap

\* ----------------------------------------------------------------- C14
\* What fn(doc) returns, or throws, when it runs from call to return with
\* nothing in between.
Alone(fn, doc) ==
  CASE fn = "objectToArray"       -> objectToArray(self, doc)
    [] fn = "objectToFixedCasing" -> objectToFixedCasing(self, doc)
    [] fn = "objectToTableCasing" -> objectToTableCasing(self, doc)

\* C14: two conversions on one instance, on two different documents, whose
\* steps are interleaved in any order, each end with the result they end
\* with when run alone.
C14_InterleavedAsAlone ==
  \A k \in DOMAIN tasks :
    Done(tasks[k]) => tasks[k].result = Alone(tasks[k].fn, tasks[k].doc)

\* Under Camel with convertLongToString set, objectToTableCasing of a
\* nested mapping and objectToFixedCasing of a mapping with a Long have
\* both returned, after steps of one were taken while the other ran.
C14_Witness ==
  /\ self.class = "Camel" /\ self.convertLongToString
  /\ overlapped
  /\ tasks = <<[fn |-> "objectToTableCasing",
               doc |-> Obj(<< <<userId, Obj(<< <<zipCode, Str(<<"X">>)>> >>)>> >>),
               stack |-> <<>>,
               result |-> Obj(<< <<user_id,
                                   Obj(<< <<<<"z","i","p","_","c","o","d","e">>,
                                            Str(<<"X">>)>> >>)>> >>)],
              [fn |-> "objectToFixedCasing",
               doc |-> Obj(<< <<in, LongOf(5)>>, <<user_id, Null>> >>),
               stack |-> <<>>,
               result |-> Obj(<< <<in, Str(<<"5">>)>>, <<userId, Null>> >>)]>>

====
